---------------------------- MODULE Spec2Model ----------------------------
(***************************************************************************)
(* A model of curl's quiche adapter, lib/vquic/quiche.c: the datagram      *)
(* pumps (process_ingress, flush_egress), the connection life cycle        *)
(* (Curl_quic_connect, Curl_quic_is_connected, quiche_disconnect), the     *)
(* stream functions (h3_stream_recv, h3_stream_send) and the header        *)
(* translation of http_request.                                            *)
(*                                                                         *)
(* The QUIC/HTTP-3 engine (quiche) and the socket are outside the file:    *)
(* each of their answers is a choice among the values the code tests for.  *)
(* The caller (the transfer engine) invokes one adapter function at a      *)
(* time; pc = "idle" is the state between two calls.                       *)
(***************************************************************************)
EXTENDS Integers, Sequences, FiniteSets, TLC

(***************************************************************************)
(* Bytes.  A buffer is a sequence of elements; an element is one byte      *)
(* (a one-character string) or FILL, a run of FillLen bytes "x", none of   *)
(* which is CR, LF, SP, TAB or ':', so every scan of the code treats the   *)
(* run as it treats each byte of it.  C offsets are kept: offset p of a    *)
(* buffer is element p + 1 of the sequence.  Lengths the code computes as  *)
(* pointer differences are byte counts, Width.                             *)
(***************************************************************************)
CR == "\r"
LF == "\n"
SP == " "
TAB == "\t"
COLON == ":"
FILL == "x*"
NULL == -1

MAX_ACC == 60000
AUTHORITY_DST_IDX == 3

\* Bounds of the model: the lines after the request line of a block, the
\* datagrams queued on the socket, the datagrams the engine produces in one
\* flush_egress, the events one recv dispatches, the bytes one read of the
\* engine gives, and the body bytes the engine gives in all.
MaxHeaders == 3
MaxDgrams == 2
MaxOut == 2
MaxEvents == 2
MaxChunk == 1
MaxBytes == 2

\* The run makes the list of "GET /a", scheme http and "X: <run>" exactly MAX_ACC
\* bytes long (28 + 1 + FillLen), and one byte more with scheme https.
FillLen == MAX_ACC - 29

RECURSIVE Width(_)
Width(s) ==
  IF s = <<>> THEN 0
  ELSE (IF Head(s) = FILL THEN FillLen ELSE 1) + Width(Tail(s))

At(mem, p) == mem[p + 1]

\* The bytes at offsets a .. b-1.
Slice(mem, a, b) == SubSeq(mem, a + 1, b)

\* memchr(mem + from, c, n): the first offset holding c, or NULL.
RECURSIVE memchr(_, _, _, _)
memchr(mem, from, c, n) ==
  IF n <= 0 \/ from >= Len(mem) THEN NULL
  ELSE IF At(mem, from) = c THEN from
  ELSE memchr(mem, from + 1, c, n - 1)

\* Curl_raw_toupper folds ASCII case; only the letters of "host" matter here.
FoldCase(c) ==
  CASE c = "H" -> "h"
    [] c = "O" -> "o"
    [] c = "S" -> "s"
    [] c = "T" -> "t"
    [] OTHER -> c

\* strncasecompare("host", mem + p, 4)
strncasecompare_host(mem, p) ==
  /\ p + 4 <= Len(mem)
  /\ <<FoldCase(At(mem, p)), FoldCase(At(mem, p + 1)),
       FoldCase(At(mem, p + 2)), FoldCase(At(mem, p + 3))>> = <<"h", "o", "s", "t">>

(***************************************************************************)
(* Header entries (quiche_h3_header): name, name_len, value, value_len.    *)
(***************************************************************************)
Entry(name, value) ==
  [name |-> name, name_len |-> Width(name), value |-> value, value_len |-> Width(value)]

\* An element of the malloc'ed array that nothing has been stored in yet.
Uninit == [name |-> <<"?">>, name_len |-> 0, value |-> <<"?">>, value_len |-> 0]

PS_METHOD == <<":", "m", "e", "t", "h", "o", "d">>
PS_PATH == <<":", "p", "a", "t", "h">>
PS_SCHEME == <<":", "s", "c", "h", "e", "m", "e">>
PS_AUTHORITY == <<":", "a", "u", "t", "h", "o", "r", "i", "t", "y">>
HTTPS == <<"h", "t", "t", "p", "s">>
HTTP == <<"h", "t", "t", "p">>

(***************************************************************************)
(* http_request, lines 391-399: the number of CRLF pairs in [mem, mem+len) *)
(***************************************************************************)
RECURSIVE CountCRLF(_, _, _)
CountCRLF(mem, i, n) ==
  IF i >= Len(mem) THEN n
  ELSE IF At(mem, i) = LF /\ At(mem, i - 1) = CR THEN CountCRLF(mem, i + 2, n + 1)
  ELSE CountCRLF(mem, i + 1, n)

\* lines 429-435: scanning back from hdbuf + i for the last space, or NULL.
RECURSIVE LastSpace(_, _, _)
LastSpace(mem, hdbuf, i) ==
  IF i = 0 THEN NULL
  ELSE IF At(mem, hdbuf + i - 1) = SP THEN hdbuf + i - 1
  ELSE LastSpace(mem, hdbuf, i - 1)

\* line 469: for(end = hdbuf; end < line_end && *end != ':'; ++end)
RECURSIVE ScanColon(_, _, _)
ScanColon(mem, end, line_end) ==
  IF end < line_end /\ At(mem, end) # COLON THEN ScanColon(mem, end + 1, line_end)
  ELSE end

\* A value that keeps its leading blanks.
KeepBlanks(mem, hdbuf) == hdbuf

\* lines 485-486: while(*hdbuf == ' ' || *hdbuf == '\t') ++hdbuf
RECURSIVE SkipBlanks(_, _)
SkipBlanks(mem, hdbuf) ==
  IF hdbuf < Len(mem) /\ At(mem, hdbuf) \in {SP, TAB} THEN SkipBlanks(mem, hdbuf + 1)
  ELSE hdbuf

\* A scheme that is https whatever the connection.
SchemeHttpsOnly(encrypted) == HTTPS

\* lines 445-448: "https" with PROTOPT_SSL among the handler's flags, else "http"
Scheme(encrypted) == IF encrypted THEN HTTPS ELSE HTTP

(***************************************************************************)
(* lines 411-449: the request line.  The three pseudo-header entries, or   *)
(* "fail" (goto fail).                                                     *)
(***************************************************************************)
RequestLine(mem, ssl) ==
  LET line_end == memchr(mem, 0, CR, Len(mem))
      end == memchr(mem, 0, SP, line_end)
      hdbuf == end + 1
      pend == LastSpace(mem, hdbuf, line_end - hdbuf)
  IN  IF line_end = NULL THEN [ok |-> FALSE]
      ELSE IF end = NULL \/ end = 0 THEN [ok |-> FALSE]
      ELSE IF pend = NULL \/ pend = hdbuf THEN [ok |-> FALSE]
      ELSE [ok |-> TRUE,
            line_end |-> line_end,
            method |-> Entry(PS_METHOD, Slice(mem, 0, end)),
            path |-> Entry(PS_PATH, Slice(mem, hdbuf, pend)),
            scheme |-> Entry(PS_SCHEME, Scheme(ssl))]

\* A check for folding that knows the space only.
StartsWithSpace(c) == c = SP

\* line 466: *hdbuf == ' ' || *hdbuf == '\t'
StartsWithBlank(c) == c \in {SP, TAB}

(***************************************************************************)
(* lines 455-508: one turn of the header loop, for the line that starts    *)
(* two bytes after the previous line's CR.                                 *)
(***************************************************************************)
HeaderLine(mem, prev_line_end) ==
  LET hdbuf == prev_line_end + 2
      line_end == memchr(mem, hdbuf, CR, Len(mem) - hdbuf)
      end == ScanColon(mem, hdbuf, line_end)
      hlen == Width(Slice(mem, hdbuf, end))
      isHost == hlen = 4 /\ strncasecompare_host(mem, hdbuf)
      vstart == SkipBlanks(mem, end + 1)
  IN  IF line_end = NULL \/ line_end = hdbuf THEN [ok |-> FALSE]
      ELSE IF StartsWithBlank(At(mem, hdbuf)) THEN [ok |-> FALSE]
      ELSE IF end = hdbuf \/ end = line_end THEN [ok |-> FALSE]
      ELSE [ok |-> TRUE,
            line_end |-> line_end,
            isHost |-> isHost,
            entry |-> Entry(IF isHost THEN PS_AUTHORITY ELSE Slice(mem, hdbuf, end),
                            Slice(mem, vstart, line_end))]

\* A move that swaps the two entries instead of shifting those between them.
SwapWithThird(nva, i, authority) ==
  [nva EXCEPT ![i] = nva[AUTHORITY_DST_IDX], ![AUTHORITY_DST_IDX] = authority]

(***************************************************************************)
(* lines 511-518: :authority is moved to AUTHORITY_DST_IDX.                *)
(***************************************************************************)
RECURSIVE RotateLoop(_, _, _)
RotateLoop(nva, i, authority) ==
  IF i > AUTHORITY_DST_IDX THEN RotateLoop([nva EXCEPT ![i] = nva[i - 1]], i - 1, authority)
  ELSE [nva EXCEPT ![i] = authority]

Rotate(nva, authority_idx) ==
  IF authority_idx # 0 /\ authority_idx # AUTHORITY_DST_IDX
  THEN RotateLoop(nva, authority_idx, nva[authority_idx])
  ELSE nva

\* lines 524-532: acc += nva[i].name_len + nva[i].value_len, for i < nheader
RECURSIVE Acc(_, _, _)
Acc(nva, i, nheader) ==
  IF i < nheader THEN nva[i].name_len + nva[i].value_len + Acc(nva, i + 1, nheader)
  ELSE 0

\* A ceiling that is reached, not passed.
AtLeastCeiling(acc) == acc >= MAX_ACC

\* line 534
TooLarge(acc) == acc > MAX_ACC


(***************************************************************************)
(* The header blocks handed to send.  A block is kept with the lines it    *)
(* was written from: rl the request line, hl the lines after it, term      *)
(* whether the empty line that ends a generated block follows.  mem is     *)
(* the flat byte buffer the code is given.                                 *)
(***************************************************************************)
Req(method, path, version) ==
  [kind |-> "req", name |-> method, value |-> path,
   bytes |-> method \o <<SP>> \o path \o <<SP>> \o version]

Hdr(name, blanks, value) ==
  [kind |-> "hdr", name |-> name, value |-> value,
   bytes |-> name \o <<COLON>> \o blanks \o value]

Raw(bytes) == [kind |-> "raw", name |-> <<>>, value |-> <<>>, bytes |-> bytes]

HTTP11 == <<"H", "T", "T", "P", "/", "1", ".", "1">>
GET == <<"G", "E", "T">>

ReqLines ==
  { Req(GET, <<"/", "a">>, HTTP11),
    Req(<<"P", "U", "T">>, <<"/", "a", SP, "b">>, HTTP11),
    Raw(<<"G", "E", "T", "/", "a">>),
    Raw(<<"G", "E", "T", SP, "/", "a">>),
    Raw(<<SP, "/", "a", SP, "H">>) }

HostLines ==
  { Hdr(<<"H", "o", "s", "t">>, <<SP>>, <<"h">>),
    Hdr(<<"h", "O", "S", "T">>, <<TAB, SP>>, <<"g">>) }

PlainLines ==
  { Hdr(<<"H", "o", "s", "t", "s">>, <<>>, <<"2">>),
    Hdr(<<"X">>, <<SP>>, <<FILL>>) }

FoldedLines ==
  { Raw(<<SP, "c">>),
    Raw(<<TAB, "c", COLON, "d">>) }

Lines == HostLines \cup PlainLines \cup FoldedLines

SeqsUpTo(S, n) == UNION {[1..k -> S] : k \in 0..n}

Blocks == [rl : ReqLines, hl : SeqsUpTo(Lines, MaxHeaders), term : BOOLEAN]

\* The example of the specification: GET /index.html, Host, Accept.
ExampleLines ==
  << Hdr(<<"H", "o", "s", "t">>, <<SP>>,
         <<"e", "x", "a", "m", "p", "l", "e", ".", "c", "o", "m">>),
     Hdr(<<"A", "c", "c", "e", "p", "t">>, <<SP>>, <<"*", "/", "*">>) >>

ExampleBlock(term) ==
  [rl |-> Req(GET, <<"/", "i", "n", "d", "e", "x", ".", "h", "t", "m", "l">>, HTTP11),
   hl |-> ExampleLines, term |-> term]

RECURSIVE FlattenLines(_)
FlattenLines(hl) ==
  IF hl = <<>> THEN <<>>
  ELSE Head(hl).bytes \o <<CR, LF>> \o FlattenLines(Tail(hl))

Flatten(b) ==
  b.rl.bytes \o <<CR, LF>> \o FlattenLines(b.hl) \o (IF b.term THEN <<CR, LF>> ELSE <<>>)

NoBlock == [rl |-> Raw(<<>>), hl |-> <<>>, term |-> FALSE]

(***************************************************************************)
(* The request methods of data->set.httpreq; the first four upload.        *)
(***************************************************************************)
UploadMethods == {"HTTPREQ_POST", "HTTPREQ_POST_FORM", "HTTPREQ_POST_MIME", "HTTPREQ_PUT"}

(***************************************************************************)
(* State.                                                                  *)
(***************************************************************************)
VARIABLES
  pc,         \* where the running adapter function stands; "idle" between calls
  ret,        \* where the running pump returns to
  life,       \* the caller's view: new, connecting, established, failed, closed
  installed,  \* conn->recv[] and conn->send[] are h3_stream_recv and h3_stream_send
  ssl,        \* conn->handler->flags & PROTOPT_SSL
  httpreq,    \* conn->data->set.httpreq
  infilesize, \* conn->data->state.infilesize
  qs,         \* struct quicsocket: which handles are held (cfg, conn, config, h3c)
  stream,     \* struct HTTP: upload_left, stream3_id
  src,        \* the block given to the running send, as written
  mem,        \* the same block as the bytes [mem, mem + len)
  hr,         \* the locals of http_request
  warned,     \* http_request logged the size warning in its last run
  h3req,      \* the calls of quiche_h3_send_request so far: headers, fin, returned id
  sockq,      \* the datagrams queued on the socket, oldest first
  ing,        \* the running or last process_ingress: datagrams read and fed, outcome
  eg,         \* the running or last flush_egress: datagrams produced and written, outcome
  call,       \* the running adapter call: what it did and what it returns
  buf,        \* the caller's buffer of the running recv
  recvd,      \* the local recvd of h3_stream_recv
  bodyNext,   \* how many body bytes the engine has handed over (numbered 1, 2, ...)
  hist,       \* the last successful send and the would-block recv right after it
  sentOk,     \* a send has returned a byte count (not -1) on this session
  delivered   \* the body bytes the recv calls have left with the caller, in order

reqVars == <<src, mem, hr, warned>>
setVars == <<ssl, httpreq, infilesize>>
pumpVars == <<ret, ing, eg>>
recvVars == <<buf, recvd, bodyNext>>
pastVars == <<hist, sentOk, delivered>>

vars == <<pc, life, installed, qs, stream, h3req, call, sockq,
          reqVars, setVars, pumpVars, recvVars, pastVars>>

\* The record of one adapter call: the functions of the engine and the pumps it
\* ran, in order, the CURLcode it gave (unset: *curlcode was not written), the
\* value it returned, *done, and the bytes it left with the caller.
NewCall(op) ==
  [op |-> op, log |-> <<>>, code |-> "unset", n |-> 0, done |-> FALSE, bytes |-> <<>>]

Did(c, what) == [c EXCEPT !.log = Append(@, what)]

\* A pump that is not running: what it took in, what it passed on, the last
\* answer it got and its CURLcode.
PumpIdle == [taken |-> <<>>, passed |-> <<>>, last |-> "none", result |-> "none"]

HrIdle ==
  [nheader |-> 0, i |-> 0, authority_idx |-> 0, line_end |-> 0,
   nva |-> <<>>, allocated |-> FALSE, freed |-> FALSE, acc |-> 0,
   exit |-> "none", result |-> "none"]

\* The array nva as the list of its nheader entries.
HeaderList(h) == [k \in 1..h.nheader |-> h.nva[k - 1]]

\* What the engine may answer to quiche_h3_send_request: a stream id or an error.
SendRequestAnswers == {0, -1}

\* What an int64_t that was never assigned may hold.
Uninitialized == {0, -1}

HrFail(h) == [h EXCEPT !.freed = h.allocated, !.exit = "fail", !.result = "CURLE_SEND_ERROR"]

(***************************************************************************)
(* http_request, lines 384-409: the HTTP/3 context is created, the lines   *)
(* are counted and the array is allocated.                                 *)
(***************************************************************************)
HR_Enter ==
  /\ pc = "hr_enter"
  /\ qs' = [qs EXCEPT !.config = TRUE, !.h3c = TRUE]
  /\ warned' = FALSE
  /\ LET n == CountCRLF(mem, 1, 0)
     IN  IF n < 2
         THEN /\ hr' = HrFail(HrIdle)
              /\ pc' = "send_request_done"
         ELSE \E malloc_ok \in BOOLEAN :
                IF malloc_ok
                THEN /\ hr' = [HrIdle EXCEPT !.nheader = n + 1,
                                             !.nva = [k \in 0..n |-> Uninit],
                                             !.allocated = TRUE]
                     /\ pc' = "hr_reqline"
                ELSE /\ hr' = [HrIdle EXCEPT !.exit = "oom", !.result = "CURLE_OUT_OF_MEMORY"]
                     /\ pc' = "send_request_done"
  /\ UNCHANGED <<src, mem, stream, h3req, call>>
  /\ UNCHANGED <<life, installed, sockq, setVars, pumpVars, recvVars, pastVars>>

\* lines 411-453
HR_RequestLine ==
  /\ pc = "hr_reqline"
  /\ LET r == RequestLine(mem, ssl)
     IN  IF ~r.ok
         THEN /\ hr' = HrFail(hr)
              /\ pc' = "send_request_done"
         ELSE /\ hr' = [hr EXCEPT !.nva = [hr.nva EXCEPT ![0] = r.method,
                                                         ![1] = r.path,
                                                         ![2] = r.scheme],
                                  !.line_end = r.line_end,
                                  !.authority_idx = 0,
                                  !.i = 3]
              /\ pc' = "hr_loop"
  /\ UNCHANGED <<src, mem, qs, stream, warned, h3req, call>>
  /\ UNCHANGED <<life, installed, sockq, setVars, pumpVars, recvVars, pastVars>>

\* lines 454-509, one turn
HR_Header ==
  /\ pc = "hr_loop"
  /\ hr.i < hr.nheader
  /\ LET h == HeaderLine(mem, hr.line_end)
     IN  IF ~h.ok
         THEN /\ hr' = HrFail(hr)
              /\ pc' = "send_request_done"
         ELSE /\ hr' = [hr EXCEPT !.nva = [hr.nva EXCEPT ![hr.i] = h.entry],
                                  !.authority_idx = IF h.isHost THEN hr.i ELSE @,
                                  !.line_end = h.line_end,
                                  !.i = hr.i + 1]
              /\ pc' = "hr_loop"
  /\ UNCHANGED <<src, mem, qs, stream, warned, h3req, call>>
  /\ UNCHANGED <<life, installed, sockq, setVars, pumpVars, recvVars, pastVars>>

\* lines 511-539, after the loop: the rotation, then the size warning
HR_Finish ==
  /\ pc = "hr_loop"
  /\ hr.i >= hr.nheader
  /\ LET nva == Rotate(hr.nva, hr.authority_idx)
         acc == Acc(nva, 0, hr.nheader)
     IN  /\ hr' = [hr EXCEPT !.nva = nva, !.acc = acc]
         /\ warned' = TooLarge(acc)
  /\ pc' = "hr_switch"
  /\ UNCHANGED <<src, mem, qs, stream, h3req, call>>
  /\ UNCHANGED <<life, installed, sockq, setVars, pumpVars, recvVars, pastVars>>

(***************************************************************************)
(* lines 541-571.  An upload method sets upload_left and calls nothing, so *)
(* stream3_id is read without ever having been assigned; any other method  *)
(* submits the list with fin = TRUE.                                       *)
(***************************************************************************)
\* A counter that forgets the declared length.
UploadLeftUnknown(size) == -1

\* lines 546-550: stream->upload_left for an upload of declared size (-1: none declared)
UploadLeft(size) == IF size # -1 THEN size ELSE -1

HR_Submit ==
  /\ pc = "hr_switch"
  /\ \E id \in (IF httpreq \in UploadMethods THEN Uninitialized ELSE SendRequestAnswers) :
       /\ IF httpreq \in UploadMethods
          THEN /\ h3req' = h3req
               /\ call' = call
               /\ stream' = [stream EXCEPT
                               !.upload_left = UploadLeft(infilesize),
                               !.stream3_id = IF id < 0 THEN @ ELSE id]
          ELSE /\ h3req' = Append(h3req, [headers |-> HeaderList(hr), fin |-> TRUE, id |-> id])
               /\ call' = Did(call, "quiche_h3_send_request")
               /\ stream' = [stream EXCEPT !.stream3_id = IF id < 0 THEN @ ELSE id]
       /\ hr' = [hr EXCEPT !.freed = TRUE,
                           !.exit = IF id < 0 THEN "send_error" ELSE "ok",
                           !.result = IF id < 0 THEN "CURLE_SEND_ERROR" ELSE "CURLE_OK"]
  /\ pc' = "send_request_done"
  /\ UNCHANGED <<src, mem, qs, warned>>
  /\ UNCHANGED <<life, installed, sockq, setVars, pumpVars, recvVars, pastVars>>

http_request == HR_Enter \/ HR_RequestLine \/ HR_Header \/ HR_Finish \/ HR_Submit

(***************************************************************************)
(* The answers of the engine.  quiche reports "nothing more" as            *)
(* QUICHE_ERR_DONE and any other failure as another negative number; -7    *)
(* (QUICHE_ERR_INVALID_STREAM_STATE) stands for these.                     *)
(***************************************************************************)
QUICHE_ERR_DONE == -1
EngineErrors == {-7}

\* The blocks the caller sends on a session: one that translates, one that does not.
SendBlocks ==
  { [rl |-> Req(GET, <<"/", "a">>, HTTP11),
     hl |-> <<Hdr(<<"H", "o", "s", "t">>, <<SP>>, <<"h">>)>>, term |-> TRUE],
    [rl |-> Req(GET, <<"/", "a">>, HTTP11),
     hl |-> <<Raw(<<SP, "c">>)>>, term |-> TRUE] }

\* An adapter function returns: c is what the caller gets.
Finish(c) ==
  /\ call' = c
  /\ pc' = "return"

\* How a recv or send call ended, for the caller.
Outcome(c) ==
  IF c.op = "send" THEN (IF c.n >= 0 THEN "send_ok" ELSE "send_failed")
  ELSE IF c.code = "CURLE_AGAIN" THEN "recv_again"
  ELSE IF c.code = "CURLE_OK" THEN (IF c.n > 0 THEN "recv_bytes" ELSE "recv_nothing")
  ELSE "recv_failed"

\* What is kept of the past calls: the last successful send, and the recv
\* after it when that recv found nothing ready; any other outcome clears it.
Remember(h, o) ==
  IF o = "send_ok" THEN <<o>>
  ELSE IF h = <<"send_ok">> /\ o = "recv_again" THEN Append(h, o)
  ELSE <<>>

\* The body bytes among the bytes a recv left with the caller (raw stream bytes are 0).
BodyBytes(bytes) == SelectSeq(bytes, LAMBDA x : x > 0)

(***************************************************************************)
(* The caller has the result; the locals of the call are gone.  The       *)
(* datagrams left on the socket are numbered anew, from the oldest.        *)
(***************************************************************************)
Return ==
  /\ pc = "return"
  /\ pc' = "idle"
  /\ hist' = IF call.op \in {"recv", "send"} THEN Remember(hist, Outcome(call)) ELSE hist
  /\ sentOk' = (sentOk \/ (call.op = "send" /\ call.n >= 0))
  /\ delivered' = delivered \o BodyBytes(call.bytes)
  /\ call' = NewCall("none")
  /\ ret' = "none" /\ ing' = PumpIdle /\ eg' = PumpIdle
  /\ buf' = <<>> /\ recvd' = 0
  /\ src' = NoBlock /\ mem' = <<>> /\ hr' = HrIdle /\ warned' = FALSE
  /\ sockq' = [k \in 1..Len(sockq) |-> k]
  /\ UNCHANGED <<life, installed, qs, stream, h3req, setVars, bodyNext>>

(***************************************************************************)
(* The network: a datagram arrives on the socket, between two calls.  The  *)
(* queued datagrams are numbered by their place in the queue.              *)
(***************************************************************************)
Arrive ==
  /\ pc = "idle"
  /\ life \in {"connecting", "established"}
  /\ Len(sockq) < MaxDgrams
  /\ sockq' = [k \in 1..(Len(sockq) + 1) |-> k]
  /\ UNCHANGED <<pc, life, installed, qs, stream, h3req, call>>
  /\ UNCHANGED <<reqVars, setVars, pumpVars, recvVars, pastVars>>

(***************************************************************************)
(* process_ingress, lines 203-221: one turn of the loop.  recv() gives the *)
(* oldest queued datagram, EAGAIN when none is queued, or fails; the       *)
(* engine takes the datagram, answers QUICHE_ERR_DONE, or fails.           *)
(***************************************************************************)
\* A turn after which the loop is left, whatever the engine answered.
IngressOnce(p, q, sock, eng) ==
  IF sock = "EAGAIN"
  THEN [p EXCEPT !.last = "EAGAIN", !.result = "CURLE_OK"]
  ELSE IF sock = "error"
  THEN [p EXCEPT !.last = "recv_error", !.result = "CURLE_RECV_ERROR"]
  ELSE [p EXCEPT !.taken = Append(@, Head(q)),
                 !.passed = Append(@, Head(q)),
                 !.last = eng,
                 !.result = IF eng = "error" THEN "CURLE_RECV_ERROR" ELSE "CURLE_OK"]

IngressTurn(p, q, sock, eng) ==
  IF sock = "EAGAIN"
  THEN [p EXCEPT !.last = "EAGAIN", !.result = "CURLE_OK"]
  ELSE IF sock = "error"
  THEN [p EXCEPT !.last = "recv_error", !.result = "CURLE_RECV_ERROR"]
  ELSE [p EXCEPT !.taken = Append(@, Head(q)),
                 !.passed = Append(@, Head(q)),
                 !.last = eng,
                 !.result = IF eng = "QUICHE_ERR_DONE" THEN "CURLE_OK"
                            ELSE IF eng = "error" THEN "CURLE_RECV_ERROR"
                            ELSE "none"]

process_ingress ==
  /\ pc = "ingress"
  /\ \E sock \in (IF sockq = <<>> THEN {"EAGAIN", "error"} ELSE {"datagram", "error"}),
        eng \in {"taken", "QUICHE_ERR_DONE", "error"} :
       /\ ing' = IngressTurn(ing, sockq, sock, eng)
       /\ sockq' = IF sock = "datagram" THEN Tail(sockq) ELSE sockq
       /\ pc' = IF ing'.result = "none" THEN "ingress" ELSE ret
  /\ UNCHANGED <<life, installed, qs, stream, h3req, call>>
  /\ UNCHANGED <<reqVars, setVars, ret, eg, recvVars, pastVars>>

(***************************************************************************)
(* flush_egress, lines 232-243: one turn of the loop.  The engine produces *)
(* a datagram (the datagrams of one run are numbered 1, 2, ...), answers   *)
(* QUICHE_ERR_DONE, or fails; send() writes the datagram or fails, EAGAIN  *)
(* being one of its failures.                                              *)
(***************************************************************************)
\* A turn that goes on to the next datagram when send() fails.
EgressSkip(p, eng, sock) ==
  IF eng = "QUICHE_ERR_DONE"
  THEN [p EXCEPT !.last = eng, !.result = "CURLE_OK"]
  ELSE IF eng = "error"
  THEN [p EXCEPT !.last = eng, !.result = "CURLE_SEND_ERROR"]
  ELSE [p EXCEPT !.taken = Append(@, Len(@) + 1),
                 !.passed = IF sock = "sent" THEN Append(@, Len(p.taken) + 1) ELSE @,
                 !.last = sock]

EgressTurn(p, eng, sock) ==
  IF eng = "QUICHE_ERR_DONE"
  THEN [p EXCEPT !.last = eng, !.result = "CURLE_OK"]
  ELSE IF eng = "error"
  THEN [p EXCEPT !.last = eng, !.result = "CURLE_SEND_ERROR"]
  ELSE [p EXCEPT !.taken = Append(@, Len(@) + 1),
                 !.passed = IF sock = "sent" THEN Append(@, Len(p.taken) + 1) ELSE @,
                 !.last = sock,
                 !.result = IF sock = "sent" THEN "none" ELSE "CURLE_SEND_ERROR"]

flush_egress ==
  /\ pc = "egress"
  /\ \E eng \in (IF Len(eg.taken) < MaxOut THEN {"datagram"} ELSE {})
                  \cup {"QUICHE_ERR_DONE", "error"},
        sock \in {"sent", "EAGAIN", "error"} :
       /\ eg' = EgressTurn(eg, eng, sock)
       /\ pc' = IF eg'.result = "none" THEN "egress" ELSE ret
  /\ UNCHANGED <<life, installed, qs, stream, h3req, call, sockq>>
  /\ UNCHANGED <<reqVars, setVars, ret, ing, recvVars, pastVars>>

(***************************************************************************)
(* Curl_quic_connect, lines 124-169.                                       *)
(***************************************************************************)
RandErrors == {"CURLE_FAILED_INIT", "CURLE_NOT_BUILT_IN"}

\* The calls of lines 134-157, up to the one that fails (all three when none does).
ConnectCalls(step) ==
  CASE step = "quiche_config_new" -> <<"quiche_config_new">>
    [] step = "Curl_rand" -> <<"quiche_config_new", "Curl_rand">>
    [] OTHER -> <<"quiche_config_new", "Curl_rand", "quiche_connect">>

\* A connect that hands on the CURLcode of flush_egress.
FlushCode(result) == result

\* lines 161-168: what connect returns after flush_egress returned result
ConnectCode(result) == IF result # "CURLE_OK" THEN "CURLE_FAILED_INIT" ELSE "CURLE_OK"

Curl_quic_connect ==
  /\ pc = "idle"
  /\ life = "new"
  /\ \E step \in {"quiche_config_new", "Curl_rand", "quiche_connect", "none"},
        rand \in RandErrors :
       LET c == [NewCall("connect") EXCEPT !.log = ConnectCalls(step)]
       IN  IF step = "none"
           THEN /\ qs' = [qs EXCEPT !.cfg = TRUE, !.conn = TRUE]
                /\ call' = Did(c, "flush_egress")
                /\ eg' = PumpIdle
                /\ ret' = "connect_flushed"
                /\ pc' = "egress"
                /\ life' = life
           ELSE /\ qs' = [qs EXCEPT !.cfg = (step # "quiche_config_new")]
                /\ Finish([c EXCEPT !.code = IF step = "Curl_rand" THEN rand
                                            ELSE "CURLE_FAILED_INIT"])
                /\ life' = "failed"
                /\ UNCHANGED <<eg, ret>>
  /\ UNCHANGED <<installed, stream, h3req, sockq, reqVars, setVars, ing, recvVars, pastVars>>

\* lines 161-168
ConnectFlushed ==
  /\ pc = "connect_flushed"
  /\ Finish([call EXCEPT !.code = ConnectCode(eg.result)])
  /\ life' = IF eg.result # "CURLE_OK" THEN "failed" ELSE "connecting"
  /\ UNCHANGED <<installed, qs, stream, h3req, sockq>>
  /\ UNCHANGED <<reqVars, setVars, pumpVars, recvVars, pastVars>>

(***************************************************************************)
(* Curl_quic_is_connected, lines 171-195.                                  *)
(***************************************************************************)
\* A test that lets every CURLcode pass.
NeverFailed(result) == FALSE

\* lines 179 and 183: if(result)
PumpFailed(result) == result # "CURLE_OK"

Curl_quic_is_connected ==
  /\ pc = "idle"
  /\ life = "connecting"
  /\ call' = Did(NewCall("is_connected"), "process_ingress")
  /\ ing' = PumpIdle
  /\ ret' = "connected_ingress_done"
  /\ pc' = "ingress"
  /\ UNCHANGED <<life, installed, qs, stream, h3req, sockq>>
  /\ UNCHANGED <<reqVars, setVars, eg, recvVars, pastVars>>

\* lines 179-182
ConnectedIngressDone ==
  /\ pc = "connected_ingress_done"
  /\ IF PumpFailed(ing.result)
     THEN /\ Finish([call EXCEPT !.code = ing.result])
          /\ life' = "failed"
          /\ UNCHANGED <<eg, ret>>
     ELSE /\ call' = Did(call, "flush_egress")
          /\ eg' = PumpIdle
          /\ ret' = "connected_egress_done"
          /\ pc' = "egress"
          /\ life' = life
  /\ UNCHANGED <<installed, qs, stream, h3req, sockq>>
  /\ UNCHANGED <<reqVars, setVars, ing, recvVars, pastVars>>

\* lines 183-194: the handler installed has PROTOPT_SSL among its flags
ConnectedEgressDone ==
  /\ pc = "connected_egress_done"
  /\ IF PumpFailed(eg.result)
     THEN /\ Finish([call EXCEPT !.code = eg.result])
          /\ life' = "failed"
          /\ UNCHANGED <<installed, ssl>>
     ELSE \E established \in BOOLEAN :
            /\ Finish([Did(call, "quiche_conn_is_established")
                         EXCEPT !.code = "CURLE_OK", !.done = established])
            /\ installed' = (installed \/ established)
            /\ ssl' = (ssl \/ established)
            /\ life' = IF established THEN "established" ELSE life
  /\ UNCHANGED <<qs, stream, h3req, sockq>>
  /\ UNCHANGED <<reqVars, httpreq, infilesize, pumpVars, recvVars, pastVars>>

(***************************************************************************)
(* h3_stream_recv, lines 258-319.                                          *)
(***************************************************************************)
h3_stream_recv ==
  /\ pc = "idle"
  /\ installed
  /\ life = "established"
  /\ call' = Did(NewCall("recv"), "process_ingress")
  /\ ing' = PumpIdle
  /\ ret' = "recv_ingress_done"
  /\ pc' = "ingress"
  /\ UNCHANGED <<life, installed, qs, stream, h3req, sockq>>
  /\ UNCHANGED <<reqVars, setVars, eg, recvVars, pastVars>>

\* What quiche_conn_stream_recv may answer: nothing ready, a failure, or a count
\* of raw stream bytes.
StreamRecvAnswers == {QUICHE_ERR_DONE} \cup EngineErrors \cup 0..MaxChunk

\* lines 271-283
RecvStreamRecv ==
  /\ pc = "recv_ingress_done"
  /\ IF ing.result # "CURLE_OK"
     THEN /\ Finish([call EXCEPT !.code = "CURLE_RECV_ERROR", !.n = -1])
          /\ UNCHANGED <<buf, recvd>>
     ELSE \E r \in StreamRecvAnswers :
            IF r = QUICHE_ERR_DONE
            THEN /\ Finish([Did(call, "quiche_conn_stream_recv")
                              EXCEPT !.code = "CURLE_AGAIN", !.n = -1])
                 /\ recvd' = r
                 /\ buf' = buf
            ELSE /\ call' = Did(call, "quiche_conn_stream_recv")
                 /\ recvd' = r
                 /\ buf' = IF r > 0 THEN [k \in 1..r |-> 0] ELSE buf
                 /\ pc' = "recv_poll"
  /\ UNCHANGED <<life, installed, qs, stream, h3req, sockq>>
  /\ UNCHANGED <<reqVars, setVars, pumpVars, bodyNext, pastVars>>

\* What quiche_h3_recv_body may answer: nothing ready, zero, or a count of body bytes.
RecvBodyAnswers ==
  {QUICHE_ERR_DONE, 0} \cup {n \in 1..MaxChunk : bodyNext + n <= MaxBytes}

\* The events dispatched by the running recv.
Events(c) == SelectSeq(c.log, LAMBDA x : x \in {"HEADERS", "DATA", "FINISHED"})

\* A buffer the bytes are added to, after what it holds.
StoredAfter(b, first, n) == b \o [k \in 1..n |-> first + k]

\* The buffer after n bytes, numbered from first + 1, were stored at its start.
Stored(b, first, n) ==
  [k \in 1..(IF Len(b) > n THEN Len(b) ELSE n) |-> IF k <= n THEN first + k ELSE b[k]]

(***************************************************************************)
(* lines 285-318: one turn of the poll loop.  Without an HTTP/3 context    *)
(* quiche_h3_conn_poll is handed a null pointer: the call may end the      *)
(* process or come back with no event.                                     *)
(***************************************************************************)
PollAnswers(c, h3c) ==
  IF ~h3c THEN {"crash", "none"}
  ELSE IF Len(Events(c)) < MaxEvents THEN {"none", "HEADERS", "DATA", "FINISHED"}
  ELSE {"none"}

RecvPoll ==
  /\ pc = "recv_poll"
  /\ \E ev \in PollAnswers(call, qs.h3c), body \in RecvBodyAnswers :
       LET c == Did(call, "quiche_h3_conn_poll")
       IN  CASE ev = "crash" ->
                  /\ pc' = "crashed"
                  /\ call' = c
                  /\ UNCHANGED <<buf, recvd, bodyNext>>
             [] ev = "none" ->
                  /\ Finish([c EXCEPT !.code = "CURLE_OK", !.n = recvd,
                                      !.bytes = IF recvd > 0 THEN SubSeq(buf, 1, recvd)
                                                ELSE <<>>])
                  /\ UNCHANGED <<buf, recvd, bodyNext>>
             [] ev = "DATA" ->
                  /\ call' = Did(Did(c, "DATA"), "quiche_h3_recv_body")
                  /\ recvd' = body
                  /\ buf' = IF body > 0 THEN Stored(buf, bodyNext, body) ELSE buf
                  /\ bodyNext' = IF body > 0 THEN bodyNext + body ELSE bodyNext
                  /\ pc' = pc
             [] ev = "HEADERS" ->
                  /\ call' = Did(c, "HEADERS")
                  /\ UNCHANGED <<pc, buf, recvd, bodyNext>>
             [] ev = "FINISHED" ->
                  /\ call' = Did(Did(c, "FINISHED"), "quiche_conn_close")
                  /\ UNCHANGED <<pc, buf, recvd, bodyNext>>
  /\ UNCHANGED <<life, installed, qs, stream, h3req, sockq>>
  /\ UNCHANGED <<reqVars, setVars, pumpVars, pastVars>>

(***************************************************************************)
(* h3_stream_send, lines 321-354.                                          *)
(***************************************************************************)
\* What quiche_conn_stream_send may answer for len bytes: a failure, or how
\* much it took.
StreamSendAnswers(len) == EngineErrors \cup {0, len}

\* lines 331-332 and 339-345
h3_stream_send ==
  /\ pc = "idle"
  /\ installed
  /\ life = "established"
  /\ \E b \in SendBlocks :
       /\ src' = b
       /\ mem' = Flatten(b)
       /\ IF ~qs.h3c
          THEN /\ call' = Did(NewCall("send"), "http_request")
               /\ pc' = "hr_enter"
               /\ UNCHANGED <<eg, ret>>
          ELSE \E sent \in StreamSendAnswers(Width(Flatten(b))) :
                 LET c == [Did(NewCall("send"), "quiche_conn_stream_send") EXCEPT !.n = sent]
                 IN  IF sent < 0
                     THEN /\ Finish([c EXCEPT !.code = "CURLE_SEND_ERROR", !.n = -1])
                          /\ UNCHANGED <<eg, ret>>
                     ELSE /\ call' = Did(c, "flush_egress")
                          /\ eg' = PumpIdle
                          /\ ret' = "send_flushed"
                          /\ pc' = "egress"
  /\ UNCHANGED <<life, installed, qs, stream, h3req, sockq, hr, warned>>
  /\ UNCHANGED <<setVars, ing, recvVars, pastVars>>

\* lines 333-337: after http_request; *curlcode is written only on failure
SendRequestDone ==
  /\ pc = "send_request_done"
  /\ IF hr.result # "CURLE_OK"
     THEN Finish([call EXCEPT !.code = "CURLE_SEND_ERROR", !.n = -1])
     ELSE Finish([call EXCEPT !.n = Width(mem)])
  /\ UNCHANGED <<life, installed, qs, stream, h3req, sockq>>
  /\ UNCHANGED <<reqVars, setVars, pumpVars, recvVars, pastVars>>

\* lines 347-353: after the flush_egress that follows the stream write
SendFlushed ==
  /\ pc = "send_flushed"
  /\ IF eg.result # "CURLE_OK"
     THEN Finish([call EXCEPT !.code = "CURLE_SEND_ERROR", !.n = -1])
     ELSE Finish([call EXCEPT !.code = "CURLE_OK"])
  /\ UNCHANGED <<life, installed, qs, stream, h3req, sockq>>
  /\ UNCHANGED <<reqVars, setVars, pumpVars, recvVars, pastVars>>

(***************************************************************************)
(* quiche_disconnect, lines 87-93: returns CURLE_OK and does nothing else. *)
(***************************************************************************)
quiche_disconnect ==
  /\ pc = "idle"
  /\ life \in {"connecting", "established", "failed"}
  /\ Finish([NewCall("disconnect") EXCEPT !.code = "CURLE_OK"])
  /\ life' = "closed"
  /\ UNCHANGED <<installed, qs, stream, h3req, sockq>>
  /\ UNCHANGED <<reqVars, setVars, pumpVars, recvVars, pastVars>>

(***************************************************************************)
(* A session: connect, is_connected until established, then recv and send  *)
(* in any order, disconnect at any time between two calls.                 *)
(***************************************************************************)
\* The request set up on the easy handle: its method, and the size of the
\* upload when one is declared (-1 when none is).
Settings ==
  { [httpreq |-> "HTTPREQ_GET", infilesize |-> -1],
    [httpreq |-> "HTTPREQ_POST", infilesize |-> -1],
    [httpreq |-> "HTTPREQ_POST", infilesize |-> MaxBytes] }

Init ==
  /\ pc = "idle"
  /\ ret = "none"
  /\ life = "new"
  /\ installed = FALSE
  /\ ssl \in BOOLEAN
  /\ \E set \in Settings : httpreq = set.httpreq /\ infilesize = set.infilesize
  /\ qs = [cfg |-> FALSE, conn |-> FALSE, config |-> FALSE, h3c |-> FALSE]
  /\ stream = [upload_left |-> 0, stream3_id |-> 0]
  /\ src = NoBlock
  /\ mem = <<>>
  /\ hr = HrIdle
  /\ warned = FALSE
  /\ h3req = <<>>
  /\ sockq = <<>>
  /\ ing = PumpIdle /\ eg = PumpIdle
  /\ call = NewCall("none")
  /\ buf = <<>> /\ recvd = 0 /\ bodyNext = 0
  /\ hist = <<>> /\ sentOk = FALSE /\ delivered = <<>>

Next ==
  \/ Arrive
  \/ Return
  \/ process_ingress
  \/ flush_egress
  \/ Curl_quic_connect
  \/ ConnectFlushed
  \/ Curl_quic_is_connected
  \/ ConnectedIngressDone
  \/ ConnectedEgressDone
  \/ h3_stream_recv
  \/ RecvStreamRecv
  \/ RecvPoll
  \/ h3_stream_send
  \/ SendRequestDone
  \/ SendFlushed
  \/ http_request
  \/ quiche_disconnect

Spec == Init /\ [][Next]_vars

(***************************************************************************)
(* The handshake alone: connect, then is_connected until established or    *)
(* failed.  flush_egress, once called, goes on taking its turns; the       *)
(* engine produces at most MaxOut datagrams before it answers               *)
(* QUICHE_ERR_DONE or fails.                                               *)
(***************************************************************************)
HandshakeNext ==
  \/ Arrive
  \/ Return
  \/ process_ingress
  \/ flush_egress
  \/ Curl_quic_connect
  \/ ConnectFlushed
  \/ Curl_quic_is_connected
  \/ ConnectedIngressDone
  \/ ConnectedEgressDone
  \/ quiche_disconnect

HandshakeSpec == Init /\ [][HandshakeNext]_vars /\ WF_vars(flush_egress)

(***************************************************************************)
(* The translation alone: http_request run once on each block of Blocks,   *)
(* on an established connection that has sent nothing yet.                 *)
(***************************************************************************)
TranslateInit ==
  /\ pc = "hr_enter"
  /\ src \in Blocks \cup {ExampleBlock(FALSE), ExampleBlock(TRUE)}
  /\ mem = Flatten(src)
  /\ ssl \in BOOLEAN
  /\ httpreq \in {"HTTPREQ_GET", "HTTPREQ_POST"}
  /\ infilesize = -1
  /\ qs = [cfg |-> TRUE, conn |-> TRUE, config |-> FALSE, h3c |-> FALSE]
  /\ stream = [upload_left |-> 0, stream3_id |-> 0]
  /\ hr = HrIdle
  /\ warned = FALSE
  /\ h3req = <<>>
  /\ life = "established"
  /\ installed = TRUE
  /\ ret = "none"
  /\ sockq = <<>>
  /\ ing = PumpIdle /\ eg = PumpIdle
  /\ call = Did(NewCall("send"), "http_request")
  /\ buf = <<>> /\ recvd = 0 /\ bodyNext = 0
  /\ hist = <<>> /\ sentOk = FALSE /\ delivered = <<>>

TranslateSpec == TranslateInit /\ [][http_request]_vars


(***************************************************************************)
(* What the claims speak of.                                               *)
(***************************************************************************)
\* http_request has returned to h3_stream_send.
Returned == pc = "send_request_done"

\* The list is complete: the loop and the rotation are over (line 520 was reached).
Translated == pc = "hr_switch" \/ (Returned /\ hr.exit \in {"ok", "send_error"})

\* A request line, N name: value lines, the empty line.
WellFormed(b) ==
  /\ b.rl.kind = "req"
  /\ \A k \in 1..Len(b.hl) : b.hl[k].kind = "hdr"
  /\ b.term

\* The bytes of s before its first c (all of s when it holds none).
RECURSIVE Before(_, _)
Before(s, c) ==
  IF s = <<>> \/ Head(s) = c THEN <<>> ELSE <<Head(s)>> \o Before(Tail(s), c)

Occurrences(s, c) == Cardinality({k \in 1..Len(s) : s[k] = c})

HostAt(b) == {j \in 1..Len(b.hl) : b.hl[j] \in HostLines}

\* The entry a name: value line is to become.
ExpectedEntry(line) ==
  [name |-> IF line \in HostLines THEN PS_AUTHORITY ELSE line.name,
   name_len |-> IF line \in HostLines THEN 10 ELSE Width(line.name),
   value |-> line.value,
   value_len |-> Width(line.value)]

ExpectedEntries(hl) == [k \in 1..Len(hl) |-> ExpectedEntry(hl[k])]

IsPseudo(e) == Head(e.name) = COLON

RECURSIVE SumLengths(_)
SumLengths(list) ==
  IF list = <<>> THEN 0
  ELSE Width(Head(list).name) + Width(Head(list).value) + SumLengths(Tail(list))

\* C1: a well-formed block of N name: value lines never takes the fail exit, and
\* its list has N + 3 entries, :method, :path, :scheme first, :method holding the
\* bytes before the first space of the request line, :scheme https on an
\* encrypted connection and http otherwise.
C1_WellFormedGivesNPlus3 ==
  WellFormed(src) =>
    /\ hr.exit # "fail"
    /\ Translated =>
         /\ hr.nheader = Len(src.hl) + 3
         /\ Len(HeaderList(hr)) = Len(src.hl) + 3
         /\ hr.nva[0].name = PS_METHOD
         /\ hr.nva[1].name = PS_PATH
         /\ hr.nva[2].name = PS_SCHEME
         /\ hr.nva[0].value = Before(src.rl.bytes, SP)
         /\ hr.nva[0].value_len = Len(Before(src.rl.bytes, SP))
         /\ hr.nva[2].value = (IF ssl THEN HTTPS ELSE HTTP)
         /\ \A k \in 3..(hr.nheader - 1) : hr.nva[k] # Uninit

C1_Witness ==
  /\ Returned /\ hr.exit = "ok"
  /\ WellFormed(src) /\ Len(src.hl) >= 2 /\ ~ssl
  /\ hr.nheader = Len(src.hl) + 3

\* C2: with a single Host line, at list position k, the list is :method, :path,
\* :scheme, then :authority with the Host value at position 3, then the entries
\* of the lines before the Host line in their order (each one position later
\* than its line), then the entries of the lines after it, where they were;
\* with k = 3 nothing moves.
C2_SingleHostRotation ==
  (Translated /\ WellFormed(src) /\ Cardinality(HostAt(src)) = 1) =>
    LET j == CHOOSE j \in HostAt(src) : TRUE
        r == RequestLine(mem, ssl)
        e == ExpectedEntries(src.hl)
    IN  HeaderList(hr) =
          <<r.method, r.path, r.scheme, e[j]>> \o SubSeq(e, 1, j - 1) \o SubSeq(e, j + 1, Len(e))

C2_Witness ==
  /\ Returned /\ hr.exit = "ok" /\ WellFormed(src)
  /\ HostAt(src) = {3}
  /\ src.hl[1] # src.hl[2]
  /\ hr.nva[3].value = src.hl[3].value
  /\ hr.nva[4].value = src.hl[1].value

ACCEPT == <<"A", "c", "c", "e", "p", "t">>

ExampleFour ==
  << Entry(PS_METHOD, GET),
     Entry(PS_PATH, <<"/", "i", "n", "d", "e", "x", ".", "h", "t", "m", "l">>),
     Entry(PS_SCHEME, HTTPS),
     Entry(PS_AUTHORITY, <<"e", "x", "a", "m", "p", "l", "e", ".", "c", "o", "m">>) >>

ExampleFive == Append(ExampleFour, Entry(ACCEPT, <<"*", "/", "*">>))

\* C3 as claimed: the example block with its three CRLF pairs, on an encrypted
\* connection, gives the five entries :method GET, :path /index.html,
\* :scheme https, :authority example.com, Accept */*.
C3_Original ==
  (Translated /\ src = ExampleBlock(FALSE) /\ ssl) => HeaderList(hr) = ExampleFive

\* C3 as amended: the example block followed by the empty line (four CRLF pairs)
\* gives the five entries; the block as written, with three CRLF pairs, gives
\* the first four, its last line being taken for the end of the block; neither
\* takes the fail exit.
C3_ExampleWithTerminator ==
  /\ (src = ExampleBlock(TRUE) \/ src = ExampleBlock(FALSE)) => hr.exit # "fail"
  /\ (Translated /\ src = ExampleBlock(TRUE) /\ ssl) => HeaderList(hr) = ExampleFive
  /\ (Translated /\ src = ExampleBlock(FALSE) /\ ssl) => HeaderList(hr) = ExampleFour

C3_Witness ==
  /\ Returned /\ hr.exit = "ok" /\ src = ExampleBlock(TRUE) /\ ssl
  /\ Len(h3req) = 1 /\ Len(h3req[1].headers) = 5

\* C4: in every list given to quiche_h3_send_request, whatever the block, each
\* pseudo-header entry comes before each regular entry and each :authority
\* entry is at index 3.
C4_PseudoHeadersFirst ==
  \A c \in 1..Len(h3req) :
    LET list == h3req[c].headers
    IN  /\ \A a, b \in 1..Len(list) : (IsPseudo(list[b]) /\ ~IsPseudo(list[a])) => b < a
        /\ \A a \in 1..Len(list) : list[a].name = PS_AUTHORITY => a = AUTHORITY_DST_IDX + 1

\* C5 as claimed: a block with a line after the request line that starts with a
\* space or a tab, or with a request line holding no space or one space only,
\* fails (by the fail exit, if the array could be allocated at all) and nothing
\* is submitted.
FoldedAt(b) == {j \in 1..Len(b.hl) : b.hl[j] \in FoldedLines}

C5_Original ==
  (Returned /\ (FoldedAt(src) # {} \/ Occurrences(src.rl.bytes, SP) <= 1)) =>
    hr.exit \in {"fail", "oom"} /\ hr.result # "CURLE_OK" /\ h3req = <<>>

\* C5 as amended: the same of every such line but the last CRLF-terminated line
\* of a block that does not end with the empty line (the code takes a block's
\* last line for that empty line and does not read it); the call fails and
\* submits nothing, by the fail exit (CURLE_SEND_ERROR) whenever the array was
\* allocated, with CURLE_OUT_OF_MEMORY when it was not.
ReadLines(b) == 1..(IF b.term THEN Len(b.hl) ELSE Len(b.hl) - 1)

C5_MalformedFails ==
  (Returned /\ (FoldedAt(src) \cap ReadLines(src) # {} \/ Occurrences(src.rl.bytes, SP) <= 1)) =>
    /\ hr.exit \in {"fail", "oom"}
    /\ hr.allocated => hr.exit = "fail" /\ hr.result = "CURLE_SEND_ERROR" /\ hr.freed
    /\ hr.result # "CURLE_OK"
    /\ h3req = <<>>

C5_Witness ==
  /\ Returned /\ hr.exit = "fail" /\ src.rl.kind = "req"
  /\ Len(src.hl) >= 2 /\ src.hl[1].kind = "hdr" /\ src.hl[2] = Raw(<<TAB, "c", COLON, "d">>)
  /\ hr.i = 4

\* C6: the size warning is logged exactly when the names and values of the list,
\* pseudo-headers included, add up to more than MAX_ACC; with or without it the
\* call goes on to the submission and does not take the fail exit.
C6_WarningAboveCeiling ==
  (WellFormed(src) /\ hr.allocated /\ (Translated \/ Returned)) =>
    /\ hr.exit # "fail"
    /\ warned <=> SumLengths(HeaderList(hr)) > MAX_ACC
    /\ hr.acc = SumLengths(HeaderList(hr))
    /\ (Returned /\ httpreq \notin UploadMethods) =>
         Len(h3req) = 1 /\ h3req[1].headers = HeaderList(hr)

C6_Witness ==
  /\ Returned /\ hr.exit = "ok" /\ httpreq \notin UploadMethods
  /\ SumLengths(HeaderList(hr)) = MAX_ACC /\ ~warned /\ Len(h3req) = 1

C6_WitnessAbove ==
  /\ Returned /\ hr.exit = "ok" /\ httpreq \notin UploadMethods
  /\ SumLengths(HeaderList(hr)) = MAX_ACC + 1 /\ warned /\ Len(h3req) = 1

(***************************************************************************)
(* The session.                                                            *)
(***************************************************************************)
\* process_ingress has returned to the function that called it.
IngressReturned == pc \in {"connected_ingress_done", "recv_ingress_done"}

\* The datagrams that were queued when the running process_ingress began.
Queued == ing.taken \o sockq

\* A recv or a send has returned.
RecvReturned == pc = "return" /\ call.op = "recv"
SendReturned == pc = "return" /\ call.op = "send"

Has(c, what) == \E k \in 1..Len(c.log) : c.log[k] = what

NoRepeat(s) == \A a, b \in 1..Len(s) : s[a] = s[b] => a = b

\* C7 as claimed: when process_ingress returns CURLE_OK, every datagram that was
\* queued has been given to the engine, in arrival order, and none is left on
\* the socket.
C7_Original ==
  (IngressReturned /\ ing.result = "CURLE_OK") =>
    /\ sockq = <<>>
    /\ ing.passed = Queued

\* C7 as amended: process_ingress gives the queued datagrams to the engine in
\* arrival order, each one it read; it returns CURLE_OK either with the socket
\* drained (EAGAIN), all K given, or as soon as the engine answers
\* QUICHE_ERR_DONE to a datagram, whatever is still queued; it never returns
\* CURLE_OK after a failure of recv() or of the engine.
C7_DrainsUntilDone ==
  IngressReturned =>
    /\ Queued = [k \in 1..Len(Queued) |-> k]
    /\ ing.passed = ing.taken
    /\ ing.result = "CURLE_OK" <=> ing.last \in {"EAGAIN", "QUICHE_ERR_DONE"}
    /\ ing.last = "EAGAIN" => sockq = <<>> /\ ing.passed = Queued
    /\ ing.last \in {"recv_error", "error"} => ing.result = "CURLE_RECV_ERROR"

C7_Witness ==
  /\ IngressReturned /\ ing.result = "CURLE_OK" /\ ing.last = "EAGAIN"
  /\ ing.passed = <<1, 2>> /\ sockq = <<>>

\* C8: a recv whose quiche_conn_stream_recv answers QUICHE_ERR_DONE returns -1
\* with CURLE_AGAIN and has polled no HTTP/3 event (and CURLE_AGAIN is returned
\* in no other case); a recv whose last Data event read a positive count returns
\* CURLE_OK and that count, the caller getting the bytes of that event; and no
\* body byte is left with the caller by two recv calls, or twice by one.
C8_WouldBlockThenData ==
  /\ RecvReturned =>
       /\ (call.code = "CURLE_AGAIN") <=>
            (call.log = <<"process_ingress", "quiche_conn_stream_recv">>)
       /\ call.code = "CURLE_AGAIN" =>
            call.n = -1 /\ recvd = QUICHE_ERR_DONE /\ Events(call) = <<>> /\ call.bytes = <<>>
       /\ (Has(call, "DATA") /\ recvd > 0) =>
            /\ call.code = "CURLE_OK"
            /\ call.n = recvd
            /\ call.bytes = [k \in 1..recvd |-> bodyNext - recvd + k]
  /\ NoRepeat(delivered)
  /\ pc = "return" => NoRepeat(delivered \o BodyBytes(call.bytes))

C8_Witness ==
  /\ RecvReturned /\ hist = <<"send_ok", "recv_again">>
  /\ call.code = "CURLE_OK" /\ call.n > 0 /\ Has(call, "DATA")
  /\ BodyBytes(call.bytes) # <<>>

\* C9: the first send that returns a byte count has called
\* quiche_h3_send_request with the translated list, whatever the request
\* method; and a send writes to the stream (quiche_conn_stream_send) only after
\* such a send.
C9_FirstSendSubmits ==
  SendReturned =>
    /\ (call.n >= 0 /\ ~sentOk) =>
         Has(call, "http_request") /\ Has(call, "quiche_h3_send_request") /\ Len(h3req) = 1
    /\ Has(call, "quiche_conn_stream_send") => sentOk /\ Len(h3req) = 1

\* C10: a recv or a send that returns success has run process_ingress before its
\* first call of a stream or request primitive of the engine and flush_egress
\* after the last.
Primitives ==
  {"quiche_conn_stream_recv", "quiche_h3_conn_poll", "quiche_h3_recv_body",
   "quiche_conn_stream_send", "quiche_h3_send_request", "http_request"}

C10_Bracketed ==
  ((RecvReturned /\ call.code = "CURLE_OK") \/ (SendReturned /\ call.n >= 0)) =>
    \A k \in 1..Len(call.log) :
      call.log[k] \in Primitives =>
        /\ \E a \in 1..(k - 1) : call.log[a] = "process_ingress"
        /\ \E b \in (k + 1)..Len(call.log) : call.log[b] = "flush_egress"

\* Curl_quic_connect has returned.
ConnectReturned == pc = "return" /\ call.op = "connect"

\* C11: connect returns CURLE_OK only after its one flush_egress returned
\* CURLE_OK, every datagram the engine produced in it written to the socket and
\* the engine's last answer QUICHE_ERR_DONE; and it returns CURLE_FAILED_INIT
\* when quiche_config_new fails, when quiche_connect fails, and when that
\* flush_egress fails.
C11_ConnectFlushesFirstFlight ==
  ConnectReturned =>
    /\ call.code = "CURLE_OK" =>
         /\ call.log = <<"quiche_config_new", "Curl_rand", "quiche_connect", "flush_egress">>
         /\ qs.cfg /\ qs.conn
         /\ eg.result = "CURLE_OK" /\ eg.last = "QUICHE_ERR_DONE"
         /\ eg.passed = eg.taken
         /\ life = "connecting"
    /\ ~qs.cfg => call.code = "CURLE_FAILED_INIT" /\ call.log = <<"quiche_config_new">>
    /\ (call.log[Len(call.log)] = "quiche_connect") =>
         ~qs.conn /\ call.code = "CURLE_FAILED_INIT"
    /\ (Has(call, "flush_egress") /\ eg.result # "CURLE_OK") =>
         call.code = "CURLE_FAILED_INIT" /\ life = "failed"

C11_Witness ==
  /\ ConnectReturned /\ call.code = "CURLE_OK"
  /\ eg.taken = <<1, 2>> /\ eg.passed = <<1, 2>>

C11_WitnessFailed ==
  /\ ConnectReturned /\ call.code = "CURLE_FAILED_INIT"
  /\ eg.taken = <<1, 2>> /\ eg.passed = <<1>> /\ eg.last = "EAGAIN"

\* Curl_quic_is_connected has returned.
IsConnectedReturned == pc = "return" /\ call.op = "is_connected"

PollSteps == <<"process_ingress", "flush_egress", "quiche_conn_is_established">>

\* C12 as claimed: every call of Curl_quic_is_connected runs process_ingress,
\* then flush_egress, then asks quiche_conn_is_established; it reports done and
\* installs h3_stream_recv and h3_stream_send only when both pumps succeeded
\* and the engine says established; a failed pump's CURLcode is returned, done
\* is not reported and nothing is installed.
C12_Original ==
  IsConnectedReturned =>
    /\ call.log = PollSteps
    /\ (call.done \/ installed) =>
         ing.result = "CURLE_OK" /\ eg.result = "CURLE_OK" /\ life = "established"
    /\ ing.result # "CURLE_OK" => call.code = ing.result /\ ~call.done /\ ~installed
    /\ eg.result \notin {"CURLE_OK", "none"} => call.code = eg.result /\ ~call.done /\ ~installed

\* C12 as amended: a call runs process_ingress once; if that fails it returns
\* its CURLcode at once, without flush_egress and without asking the engine;
\* otherwise it runs flush_egress once; if that fails it returns its CURLcode
\* without asking the engine; otherwise it asks quiche_conn_is_established once
\* and returns CURLE_OK.  done is reported and the functions are installed
\* exactly in a call where both pumps succeeded and the engine says
\* established; in every other call neither happens.
C12_PollConnected ==
  IsConnectedReturned =>
    /\ \E k \in 1..3 : call.log = SubSeq(PollSteps, 1, k)
    /\ Len(call.log) = 1 <=> ing.result # "CURLE_OK"
    /\ Len(call.log) = 2 <=> (ing.result = "CURLE_OK" /\ eg.result # "CURLE_OK")
    /\ Len(call.log) = 1 => call.code = ing.result /\ eg = PumpIdle
    /\ Len(call.log) = 2 => call.code = eg.result
    /\ Len(call.log) = 3 => call.code = "CURLE_OK"
    /\ Len(call.log) < 3 => ~call.done /\ ~installed /\ life = "failed"
    /\ call.done <=> installed
    /\ call.done <=> life = "established"
    /\ call.done => ssl

C12_Witness ==
  /\ IsConnectedReturned /\ call.done /\ installed /\ life = "established"
  /\ ing.passed = <<1, 2>> /\ eg.passed = <<1>>

\* A call has returned a failure to its caller.
Fatal(c) == c.code \notin {"CURLE_OK", "CURLE_AGAIN", "unset"}

\* What makes a call fail for good: recv() or send() failing with an error other
\* than would-block, the engine failing with an error other than
\* QUICHE_ERR_DONE, a step of connect failing, a block that does not translate.
FatalCause ==
  \/ ing.last \in {"recv_error", "error"}
  \/ eg.last = "error"
  \/ call.op = "connect" /\ ~Has(call, "flush_egress")
  \/ call.op = "send" /\ hr.result \notin {"CURLE_OK", "none"}
  \/ call.op = "send" /\ call.log = <<"quiche_conn_stream_send">>

\* C13: a call of connect, is_connected, recv or send returns a failure only when
\* a fatal condition occurred in it: a socket that answers would-block, to
\* recv() or to send(), or an engine that answers QUICHE_ERR_DONE, never makes
\* the call fail.
C13_WouldBlockNeverFatal ==
  (pc = "return" /\ Fatal(call)) => FatalCause

\* flush_egress has returned to the function that called it.
EgressReturned == pc \in {"connect_flushed", "connected_egress_done", "send_flushed"}

\* C14: when flush_egress returns CURLE_OK every datagram the engine produced in
\* that run was written to the socket, once and in the order produced, and the
\* engine's last answer was QUICHE_ERR_DONE; an engine failure or a failed
\* send() ends the run with CURLE_SEND_ERROR; and a run that has begun returns,
\* the engine answering QUICHE_ERR_DONE (or failing) after MaxOut datagrams at
\* the latest.
C14_EgressSafe ==
  EgressReturned =>
    /\ eg.taken = [k \in 1..Len(eg.taken) |-> k]
    /\ eg.result = "CURLE_OK" <=> eg.last = "QUICHE_ERR_DONE"
    /\ eg.result = "CURLE_OK" => eg.passed = eg.taken
    /\ eg.last \in {"error", "EAGAIN"} =>
         /\ eg.result = "CURLE_SEND_ERROR"
         /\ eg.passed = SubSeq(eg.taken, 1, Len(eg.passed))
    /\ eg.result \in {"CURLE_OK", "CURLE_SEND_ERROR"}

C14_EgressWritesAllAndReturns ==
  /\ []C14_EgressSafe
  /\ (pc = "egress") ~> EgressReturned

C14_Witness ==
  /\ pc = "connected_egress_done" /\ eg.result = "CURLE_OK"
  /\ eg.passed = <<1, 2>> /\ eg.last = "QUICHE_ERR_DONE"

\* C15: a recv on a session without HTTP/3 context (qs->h3c is NULL) does not
\* call quiche_h3_conn_poll and returns the count of quiche_conn_stream_recv;
\* a recv on a session with a context polls until no event is pending and
\* returns the count of its last Data event.
C15_PathByContext ==
  /\ (call.op = "recv" /\ ~qs.h3c) =>
       /\ ~Has(call, "quiche_h3_conn_poll")
       /\ pc # "crashed"
  /\ (RecvReturned /\ call.code = "CURLE_OK") =>
       /\ call.n = recvd
       /\ qs.h3c => call.log[Len(call.log)] = "quiche_h3_conn_poll"

\* The first send of the session has gone through the switch of line 541.
FirstSendSwitched ==
  SendReturned /\ Has(call, "http_request") /\ hr.exit \in {"ok", "send_error"}

DisconnectReturned == pc = "return" /\ call.op = "disconnect"

\* C17: after disconnect the session holds none of the engine's handles, the
\* configuration (qs->cfg), the connection (qs->conn), the HTTP/3 configuration
\* and context (qs->config, qs->h3c) all released; and disconnect wrote no
\* datagram.
C17_DisconnectReleases ==
  (DisconnectReturned \/ life = "closed") =>
    /\ ~qs.cfg /\ ~qs.conn /\ ~qs.config /\ ~qs.h3c
    /\ DisconnectReturned => call.log = <<>> /\ eg = PumpIdle

\* C18: a send whose block does not translate (http_request leaves by its fail
\* label) has freed the header array and leaves no HTTP/3 configuration or
\* context on the session; so a send writes its bytes to the stream
\* (quiche_conn_stream_send) only after a send that translated and submitted.
C18_FailedSendLeavesState ==
  /\ (SendReturned /\ Has(call, "http_request") /\ hr.exit = "fail") =>
       /\ call.n = -1 /\ call.code = "CURLE_SEND_ERROR"
       /\ hr.allocated => hr.freed
       /\ ~qs.h3c /\ ~qs.config
       /\ h3req = <<>>
  /\ (call.op = "send" /\ Has(call, "quiche_conn_stream_send")) => sentOk

\* C19: a recv that returns with CURLE_OK returns a count that is not negative;
\* a negative count comes with CURLE_AGAIN or CURLE_RECV_ERROR only.
C19_SuccessCountNotNegative ==
  RecvReturned =>
    /\ call.code = "CURLE_OK" => call.n >= 0
    /\ call.n < 0 => call.code \in {"CURLE_AGAIN", "CURLE_RECV_ERROR"}

\* C20: every body byte the engine has handed over for a Data event is with the
\* caller once the recv has returned, once and in order; and the count a recv
\* returns with CURLE_OK, when not negative, is the number of bytes the engine
\* stored in the buffer during that call.
C20_BodyBytesExactlyOnce ==
  /\ pc = "idle" => delivered = [k \in 1..bodyNext |-> k]
  /\ (RecvReturned /\ call.code = "CURLE_OK" /\ call.n >= 0) =>
       /\ call.n = Len(buf)
       /\ delivered \o BodyBytes(call.bytes) = [k \in 1..bodyNext |-> k]

=============================================================================
